---- MODULE Spec2Model ----
(***************************************************************************)
(* Client-side interactivity of the Pieruccini Seguros site (script.js):   *)
(* the contact form (phone mask, field validation, simulated submission),  *)
(* the mobile navigation, the observation-driven revealers and counters,   *)
(* and the composition root.  Each subsystem has its own specification     *)
(* over the shared state; the variables of the other subsystems stay as    *)
(* initComponents left them, except where a handler reaches into another   *)
(* subsystem (a submission's callback scrolls the window).                 *)
(*                                                                         *)
(* Text is modelled as a sequence of one-character strings.                *)
(***************************************************************************)
EXTENDS Integers, Sequences, FiniteSets, TLC

VARIABLES
    \* ---- contact form (FormHandler) ----
    value,          \* field -> current text of the control (field.value)
    error,          \* field -> parent group carries form__group--error
    required,       \* field -> the control has the required attribute
    rawInput,       \* e.target.value as the last input event on #phone found it
    onScript,       \* the only events so far are keystrokes of Scenario, in order
    focus,          \* the control holding focus ("none" when no field of the form)
    btnLabel,       \* submitBtn.innerHTML
    btnDisabled,    \* submitBtn.disabled
    feedbackDisplay,\* .form__feedback style.display
    successDisplay, \* .feedback--success style.display
    submits,        \* number of submit events handled so far
    \* ---- timers and clock (setTimeout) ----
    now,            \* milliseconds since the page was initialised
    timers,         \* pending setTimeout callbacks
    lastFired,      \* the timer whose callback the last step ran (NoTimer otherwise)
    \* ---- navigation (Navigation) ----
    isOpen,         \* this.isOpen
    menuActive,     \* .navbar__menu carries navbar__menu--active
    ariaExpanded,   \* the toggle's aria-expanded attribute ("null" when absent)
    bodyOverflow,   \* document.body.style.overflow
    scrollY,        \* window.scrollY
    scrollTo,       \* the offset a window.scrollTo call is taking the window to, while
                    \* its last scroll event is still to come ({} when at rest)
    scrollSince,    \* the time of the window.scrollTo call that started the scroll in
                    \* progress (0 when at rest)
    navbarScrolled, \* .navbar carries navbar--scrolled
    inThrottle,     \* the inThrottle flag of the throttled scroll listener
    handleScrollAt, \* the time of the last call of handleScroll
    calls,          \* the times at which the throttled listener called handleScroll
    usingMouse,     \* document.body carries the class using-mouse
    navEvent,       \* the last event dispatched, and this.isOpen as it found it
    \* ---- revealers and counters (ScrollReveal, AnimatedCounters, LazyImages) ----
    reducedMotion,  \* matchMedia('(prefers-reduced-motion: reduce)').matches
    target,         \* parseInt(element.dataset.counter) of the counter element
    counted,        \* the counter element carries the class counted
    loops,          \* the updateCounter callbacks waiting for an animation frame
    text,           \* the counter element's textContent
    lastWrites,     \* the values the last updateCounter call wrote, in order
    frames,         \* number of updateCounter calls so far
    starts,         \* number of animation loops started so far
    revealed,       \* the reveal-marked elements carrying the class revealed
    srObserved,     \* the elements ScrollReveal's observer observes
    srPending,      \* element -> number of its reveal timeouts not yet run
    srDelivered,    \* the elements an intersecting entry was delivered for
    acObserved,     \* AnimatedCounters' observer observes the counter element
    acDelivered,    \* an intersecting entry for the counter element was delivered
    nativeLazy,     \* 'loading' in HTMLImageElement.prototype
    imgObserved,    \* LazyImages' observer observes the image
    imgLoaded,      \* the image has its src set and carries the class loaded
    imgDelivered,   \* an intersecting entry for the image was delivered
    \* ---- composition root (App) ----
    pc,             \* "loading" before initComponents, then "ready" or "threw"
    markup,         \* the expected markup that the page holds
    wired,          \* the listeners and effects the components have installed
    touchDevice,    \* 'ontouchstart' in window
    production,     \* location.hostname is neither localhost nor 127.0.0.1
    performanceTiming, \* window.performance and window.performance.timing exist
    readyState,     \* document.readyState
    script,         \* the script's top level: "start", then "done" or "aborted"
    exported,       \* window.PierucciniUtils.announce ("unset": no PierucciniUtils)
    inits,          \* number of runs of initComponents so far
    \* ---- the page's elements ----
    domWrites       \* <<component, element>>: the component has written the element's
                    \* class list, text, style or attributes: by the constructors,
                    \* and afterwards by Navigation, AccessibilityHelpers,
                    \* ScrollReveal, AnimatedCounters and LazyImages

formVars == <<value, error, required, rawInput, onScript, focus, btnLabel,
              btnDisabled, feedbackDisplay, successDisplay, submits>>
clockVars == <<now, timers, lastFired>>
navVars == <<isOpen, menuActive, ariaExpanded, bodyOverflow, scrollY, scrollTo, scrollSince,
             navbarScrolled,
             inThrottle, handleScrollAt, calls, usingMouse, navEvent>>
counterVars == <<target, counted, loops, text, lastWrites, frames, starts>>
observerVars == <<revealed, srObserved, srPending, srDelivered, acObserved, acDelivered,
                  nativeLazy, imgObserved, imgLoaded, imgDelivered>>
revealVars == <<reducedMotion, counterVars, observerVars>>
appVars == <<pc, markup, wired, touchDevice, production, performanceTiming, readyState,
             script, exported,
             inits>>
vars == <<formVars, clockVars, navVars, revealVars, appVars, domWrites>>

\* what each subsystem leaves alone
notForm == <<navVars, revealVars, appVars, domWrites>>
notNav == <<formVars, revealVars, appVars>>
notReveal == <<formVars, navVars, clockVars, appVars>>
notApp == <<formVars, clockVars, reducedMotion, counterVars>>

-----------------------------------------------------------------------------
(* Text helpers *)

Digits == {"0", "1", "2", "3", "4", "5", "6", "7", "8", "9"}
\* the characters String.prototype.trim removes and \s matches (WhiteSpace and
\* LineTerminator); a character without an escape is written by its code point
Whitespace == {" ", "\t", "\n", "\r", "\f", "U+000B", "U+00A0", "U+1680", "U+2000", "U+2001",
               "U+2002", "U+2003", "U+2004", "U+2005", "U+2006", "U+2007", "U+2008",
               "U+2009", "U+200A", "U+2028", "U+2029", "U+202F", "U+205F", "U+3000",
               "U+FEFF"}

IsDigit(c) == c \in Digits

\* String.prototype.trim
RECURSIVE TrimLeft(_)
TrimLeft(s) == IF s # <<>> /\ Head(s) \in Whitespace THEN TrimLeft(Tail(s)) ELSE s
RECURSIVE TrimRight(_)
TrimRight(s) ==
    IF s # <<>> /\ s[Len(s)] \in Whitespace
    THEN TrimRight(SubSeq(s, 1, Len(s) - 1)) ELSE s
Trim(s) == TrimRight(TrimLeft(s))

\* value.replace(/\D/g, '')
StripNonDigits(s) == SelectSeq(s, IsDigit)

\* length of the longest prefix of s made of digits, at most max of them
RECURSIVE DigitRun(_, _)
DigitRun(s, max) ==
    IF max > 0 /\ s # <<>> /\ IsDigit(Head(s))
    THEN 1 + DigitRun(Tail(s), max - 1) ELSE 0

-----------------------------------------------------------------------------
(* The window *)

\* the scroll offset above which the navbar is shown as scrolled
ScrollThreshold == 50

\* offsets the window is found at: the top, around the threshold, further down
ScrollPositions == {0, 50, 51, 400}

\* the document offset of the section the menu links and the hero indicator lead
\* to, the navbar height they keep above it, and the document offset of the form
\* with the offset handleSubmit keeps above it
SectionTop == 900
NavbarHeight == 80
FormTop == 1200
FormOffset == 100

\* window.scrollTo({top: top, behavior: 'smooth'}).  A browser that scrolls
\* smoothly moves the window while the scroll events arrive; one that does not
\* moves it at once, and the scroll event follows.  A window already at rest at
\* that offset does not scroll.
windowScrollTo(top) ==
    LET still == scrollY = top /\ scrollTo = {}
    IN  /\ scrollY' \in {scrollY, top}
        /\ scrollTo' = IF still THEN {} ELSE {top}
        /\ scrollSince' = IF still THEN scrollSince ELSE now

\* smoothScrollTo(element, offset) for an element at document offset top; the
\* window stops at 0
smoothScrollTo(top, offset) == windowScrollTo(IF top > offset THEN top - offset ELSE 0)

-----------------------------------------------------------------------------
(* FormHandler.maskPhone *)

\* value.replace(/^(\d{2})(\d{5})(\d{4}).*/, '($1) $2-$3'):
\* the pattern needs eleven leading digits; a text it does not match is returned as is
ReplaceFull(v) ==
    IF DigitRun(v, 11) = 11
    THEN <<"(">> \o SubSeq(v, 1, 2) \o <<")", " ">> \o SubSeq(v, 3, 7)
         \o <<"-">> \o SubSeq(v, 8, 11)
    ELSE v

\* value.replace(/^(\d{2})(\d{0,5})/, '($1) $2')
ReplacePartial(v) ==
    IF DigitRun(v, 2) = 2
    THEN LET n == DigitRun(SubSeq(v, 3, Len(v)), 5)
         IN  <<"(">> \o SubSeq(v, 1, 2) \o <<")", " ">> \o SubSeq(v, 3, 2 + n)
             \o SubSeq(v, 3 + n, Len(v))
    ELSE v

\* value.replace(/^(\d*)/, '($1')
ReplaceOpen(v) == <<"(">> \o v

\* a slice one digit short
SliceTen(v) == IF Len(v) > 10 THEN SubSeq(v, 1, 10) ELSE v

\* value.slice(0, 11) when longer than 11
SliceEleven(v) == IF Len(v) > 11 THEN SubSeq(v, 1, 11) ELSE v

maskPhone(raw) ==
    LET v == SliceEleven(StripNonDigits(raw))
    IN  IF Len(v) > 6 THEN ReplaceFull(v)
        ELSE IF Len(v) > 2 THEN ReplacePartial(v)
        ELSE IF Len(v) > 0 THEN ReplaceOpen(v)
        ELSE v

-----------------------------------------------------------------------------
(* The contact form's markup: the .form__input controls in document order. *)
(* Each control sits alone in its own form__group, so the error class of   *)
(* a control's parentElement is a flag of the control.                     *)

Fields == <<"name", "email", "phone", "service">>
FieldSet == {Fields[i] : i \in 1..Len(Fields)}
PhoneField == "phone"

\* field.type
FieldType(f) ==
    CASE f = "name" -> "text"
      [] f = "email" -> "email"
      [] f = "phone" -> "tel"
      [] f = "service" -> "select-one"

\* field.tagName
FieldTag(f) == IF f = "service" THEN "SELECT" ELSE "INPUT"

-----------------------------------------------------------------------------
(* FormHandler.validateField *)

\* the pattern without its dot: /^[^\s@]+@[^\s@]+$/
emailRegexNoDot(v) ==
    /\ \A i \in 1..Len(v) : v[i] \notin Whitespace
    /\ Cardinality({i \in 1..Len(v) : v[i] = "@"}) = 1
    /\ LET at == CHOOSE i \in 1..Len(v) : v[i] = "@"
       IN  at > 1 /\ at < Len(v)

\* /^[^\s@]+@[^\s@]+\.[^\s@]+$/.test(v)
emailRegex(v) ==
    /\ \A i \in 1..Len(v) : v[i] \notin Whitespace
    /\ Cardinality({i \in 1..Len(v) : v[i] = "@"}) = 1
    /\ LET at == CHOOSE i \in 1..Len(v) : v[i] = "@"
       IN  /\ at > 1
           /\ \E i \in (at + 2)..(Len(v) - 1) : v[i] = "."

\* the pattern without its space: /^\(\d{2}\)\d{5}-\d{4}$/
phoneRegexNoSpace(v) ==
    /\ Len(v) = 14
    /\ v[1] = "(" /\ v[4] = ")" /\ v[10] = "-"
    /\ \A i \in {2, 3} \cup (5..9) \cup (11..14) : IsDigit(v[i])

\* /^\(\d{2}\) \d{5}-\d{4}$/.test(v)
phoneRegex(v) ==
    /\ Len(v) = 15
    /\ v[1] = "(" /\ v[4] = ")" /\ v[5] = " " /\ v[11] = "-"
    /\ \A i \in {2, 3} \cup (6..10) \cup (12..15) : IsDigit(v[i])

\* the isValid that validateField computes for control f holding text val
FieldValid(f, val, req) ==
    LET v == Trim(val)
        afterRequired == ~(req /\ v = <<>>)
        afterEmail == IF FieldType(f) = "email" /\ v # <<>>
                      THEN emailRegex(v) ELSE afterRequired
        afterPhone == IF FieldType(f) = "tel" /\ v # <<>>
                      THEN phoneRegex(v) ELSE afterEmail
        afterSelect == IF FieldTag(f) = "SELECT" /\ req
                       THEN v # <<>> ELSE afterPhone
    IN  afterSelect

\* the error marks after validateField(f): the mark is removed, then set when invalid
validateField(err, f, val, req) == [err EXCEPT ![f] = ~FieldValid(f, val, req)]

\* FormHandler.validateForm: every control is validated, none is skipped
RECURSIVE ValidateFrom(_, _, _, _)
ValidateFrom(err, i, vals, reqs) ==
    IF i > Len(Fields) THEN err
    ELSE ValidateFrom(validateField(err, Fields[i], vals[Fields[i]], reqs[Fields[i]]),
                      i + 1, vals, reqs)
validateForm(err, vals, reqs) == ValidateFrom(err, 1, vals, reqs)

\* validateForm's result
FormValid(vals, reqs) == \A f \in FieldSet : FieldValid(f, vals[f], reqs[f])

\* the last marked control instead of the first
LastError(err) ==
    IF \E f \in FieldSet : err[f]
    THEN Fields[CHOOSE i \in 1..Len(Fields) :
                    err[Fields[i]] /\ \A j \in (i + 1)..Len(Fields) : ~err[Fields[j]]]
    ELSE "none"

\* this.form.querySelector('.form__group--error .form__input'): first in document order
FirstError(err) ==
    IF \E f \in FieldSet : err[f]
    THEN Fields[CHOOSE i \in 1..Len(Fields) :
                    err[Fields[i]] /\ \A j \in 1..(i - 1) : ~err[Fields[j]]]
    ELSE "none"

-----------------------------------------------------------------------------
(* Input and blur listeners (FormHandler.init) *)

\* the re-validation listener without its test of the error class
InputListenersAlways(f, raw) ==
    /\ error' = validateField(error, f, raw, required[f])
    /\ value' = [value EXCEPT ![f] = IF f = PhoneField THEN maskPhone(raw) ELSE raw]
    /\ rawInput' = IF f = PhoneField THEN raw ELSE rawInput

\* One input event on control f whose text the browser has just changed to raw.
\* Listeners run in registration order: the re-validation listener of the control
\* (only while it is marked invalid), then, on #phone, the mask.
InputListeners(f, raw) ==
    /\ error' = IF error[f] THEN validateField(error, f, raw, required[f]) ELSE error
    /\ value' = [value EXCEPT ![f] = IF f = PhoneField THEN maskPhone(raw) ELSE raw]
    /\ rawInput' = IF f = PhoneField THEN raw ELSE rawInput

\* the blur listener of control f
BlurListener(f) == error' = validateField(error, f, value[f], required[f])

-----------------------------------------------------------------------------
(* App.initComponents and the components' constructors *)

\* the markup the components look for
Markup == {"navbar", "toggle", "menu", "links", "form", "backToTop", "hero",
           "track", "reveal", "counter", "tilt", "parallax"}

\* the constructors in the order initComponents calls them
Constructors ==
    <<"Navigation", "SmoothScroll", "FormHandler", "BackToTop", "ParallaxEffect",
      "ScrollReveal", "CardTilt", "AnimatedCounters", "HeroScroll", "PartnerSlider",
      "LazyImages", "AccessibilityHelpers", "PerformanceMonitor">>

\* the constructor of c throws on the page: Navigation.init calls handleScroll,
\* which reads this.navbar.classList
Throws(c, page) == c = "Navigation" /\ "navbar" \notin page

\* what Navigation.init has installed when handleScroll is called
NavigationEarly(page) ==
    (IF "toggle" \in page THEN {"nav.toggle.click"} ELSE {})
    \cup (IF "links" \in page THEN {"nav.link.click"} ELSE {})

\* what the constructor of c installs when it runs to its end; initComponents
\* constructs PerformanceMonitor only in production, and its init returns at once
\* on a browser without window.performance.timing
Wiring(c, page, reduced, touch, native, prod, timing) ==
    CASE c = "Navigation" ->
            NavigationEarly(page)
            \cup {"nav.scrolled", "nav.scroll", "nav.document.click", "nav.document.keydown"}
      [] c = "SmoothScroll" -> IF "links" \in page THEN {"smooth.click"} ELSE {}
      [] c = "FormHandler" ->
            IF "form" \in page THEN {"form.submit", "form.blur", "form.input"} ELSE {}
      [] c = "BackToTop" ->
            IF "backToTop" \in page THEN {"top.scroll", "top.click"} ELSE {}
      [] c = "ParallaxEffect" ->
            IF "parallax" \in page /\ ~reduced
            THEN {"parallax.transform", "parallax.scroll", "parallax.resize"} ELSE {}
      [] c = "ScrollReveal" ->
            IF "reveal" \notin page THEN {}
            ELSE IF reduced THEN {"reveal.revealed"} ELSE {"reveal.observer"}
      [] c = "CardTilt" ->
            IF "tilt" \in page /\ ~touch THEN {"tilt.mousemove", "tilt.mouseleave"} ELSE {}
      [] c = "AnimatedCounters" -> IF "counter" \in page THEN {"counters.observer"} ELSE {}
      [] c = "HeroScroll" -> IF "hero" \in page THEN {"hero.click"} ELSE {}
      [] c = "PartnerSlider" ->
            IF "track" \notin page THEN {}
            ELSE IF reduced THEN {"slider.none"}
                 ELSE {"slider.mouseenter", "slider.mouseleave"}
      [] c = "LazyImages" -> IF native THEN {} ELSE {"lazy.observer"}
      [] c = "AccessibilityHelpers" ->
            {"a11y.skipLink", "a11y.focusVisible", "a11y.escape", "a11y.announce"}
      [] c = "PerformanceMonitor" ->
            IF ~prod THEN {} ELSE IF ~timing THEN {} ELSE {"perf.load"}

\* initComponents from its i-th constructor on, with acc installed so far: an
\* exception ends it; at its end the body gets the class loaded
RECURSIVE RunFrom(_, _, _, _, _, _, _, _)
RunFrom(i, acc, page, reduced, touch, native, prod, timing) ==
    IF i > Len(Constructors) THEN [wired |-> acc \cup {"body.loaded"}, threw |-> FALSE]
    ELSE IF Throws(Constructors[i], page)
         THEN [wired |-> acc \cup NavigationEarly(page), threw |-> TRUE]
         ELSE RunFrom(i + 1,
                      acc \cup Wiring(Constructors[i], page, reduced, touch, native, prod,
                                      timing),
                      page, reduced, touch, native, prod, timing)

initComponents(page, reduced, touch, native, prod, timing) ==
    RunFrom(1, {}, page, reduced, touch, native, prod, timing)

\* the page's reveal-marked elements; the counter element lies inside the first
RevealEls == {"r1", "r2"}
HasCounter(r) == r = "r1"

\* the elements written while the effects w were installed: Navigation.init calls
\* handleScroll; ParallaxEffect.init calls updateParallax; ScrollReveal.init adds a
\* class to every reveal-marked element; PartnerSlider.init stops the track under
\* reduced motion; AccessibilityHelpers styles the skip link and the live region it
\* creates; initComponents marks the body loaded
ConstructionWrites(w) ==
    (IF "nav.scrolled" \in w THEN {<<"Navigation", "navbar">>} ELSE {})
    \cup (IF "parallax.transform" \in w THEN {<<"ParallaxEffect", "layer">>} ELSE {})
    \cup (IF {"reveal.revealed", "reveal.observer"} \cap w # {}
          THEN {<<"ScrollReveal", r>> : r \in RevealEls} ELSE {})
    \cup (IF "slider.none" \in w THEN {<<"PartnerSlider", "track">>} ELSE {})
    \cup (IF "a11y.skipLink" \in w THEN {<<"AccessibilityHelpers", "skipLink">>} ELSE {})
    \cup (IF "a11y.announce" \in w THEN {<<"AccessibilityHelpers", "liveRegion">>} ELSE {})
    \cup (IF "body.loaded" \in w THEN {<<"App", "body">>} ELSE {})

\* ScrollReveal.init: under reduced motion every element is revealed at once and
\* no observer is made; otherwise every element is observed
ScrollRevealInit(reduced) ==
    IF reduced THEN [revealed |-> RevealEls, observed |-> {}]
    ELSE [revealed |-> {}, observed |-> RevealEls]

\* what the observers observe once the effects w are installed: ScrollReveal.init
\* on a page with reveal-marked elements, AnimatedCounters.init on a page with a
\* counter, LazyImages.init on a browser without native lazy loading
Observers(w) ==
    LET sr == IF {"reveal.revealed", "reveal.observer"} \cap w = {}
              THEN [revealed |-> {}, observed |-> {}]
              ELSE ScrollRevealInit("reveal.revealed" \in w)
    IN  [revealed |-> sr.revealed, srObserved |-> sr.observed,
         acObserved |-> "counters.observer" \in w,
         imgObserved |-> "lazy.observer" \in w]

\* App.initComponents runs: the constructors install their effects; Navigation.init
\* calls handleScroll with the window where the page was loaded
InitComponents ==
    LET r == initComponents(markup, reducedMotion, touchDevice, nativeLazy, production,
                            performanceTiming)
    IN  /\ pc = "loading"
        /\ pc' = IF r.threw THEN "threw" ELSE "ready"
        /\ wired' = r.wired
        /\ domWrites' = ConstructionWrites(r.wired)
        /\ revealed' = Observers(r.wired).revealed
        /\ srObserved' = Observers(r.wired).srObserved
        /\ acObserved' = Observers(r.wired).acObserved
        /\ imgObserved' = Observers(r.wired).imgObserved
        /\ inits' = inits + 1
        /\ IF "nav.scrolled" \in r.wired
           THEN navbarScrolled' = (scrollY > ScrollThreshold) /\ handleScrollAt' = now
           ELSE UNCHANGED <<navbarScrolled, handleScrollAt>>
        /\ UNCHANGED <<markup, touchDevice, production, performanceTiming, srPending,
                       srDelivered,
                       acDelivered, nativeLazy, imgLoaded, imgDelivered,
                       isOpen, menuActive, ariaExpanded, bodyOverflow, scrollY, scrollTo,
                       scrollSince, inThrottle, calls, usingMouse, navEvent>>

\* window.announce once the effects w are installed: setupAriaLive defines it
WindowAnnounce(w) == IF "a11y.announce" \in w THEN "announce" ELSE "undefined"

\* The script's top level.  new App() runs App.init: while the document is loading
\* initComponents is left to a DOMContentLoaded listener, otherwise it runs at once,
\* and an exception of it ends the script.  Then window.PierucciniUtils is built
\* with announce: window.announce, read at that moment.
RunScript ==
    /\ script = "start"
    /\ IF readyState = "loading"
       THEN /\ script' = "done"
            /\ exported' = WindowAnnounce(wired)
            /\ UNCHANGED <<pc, markup, wired, touchDevice, production, performanceTiming,
                           inits, domWrites,
                           observerVars, navVars>>
       ELSE /\ InitComponents
            /\ script' = IF pc' = "threw" THEN "aborted" ELSE "done"
            /\ exported' = IF pc' = "threw" THEN "unset" ELSE WindowAnnounce(wired')
    /\ UNCHANGED readyState

\* DOMContentLoaded, with the listener App.init registered
DOMContentLoaded ==
    /\ script = "done"
    /\ readyState = "loading"
    /\ readyState' = "interactive"
    /\ InitComponents
    /\ UNCHANGED <<script, exported>>

\* a page holding all the markup, on a desktop browser, initialised by a script
\* that ran when the document was ready
AppIdle ==
    /\ pc = "ready"
    /\ markup = Markup
    /\ touchDevice = FALSE
    /\ production = FALSE
    /\ performanceTiming = TRUE
    /\ wired = initComponents(Markup, reducedMotion, FALSE, nativeLazy, FALSE, TRUE).wired
    /\ readyState = "complete"
    /\ script = "done"
    /\ exported = "announce"
    /\ inits = 1

\* the observers of a page whose installed effects are w, before any entry is
\* delivered to them
ObserversIdle(w) ==
    /\ revealed = Observers(w).revealed
    /\ srObserved = Observers(w).srObserved
    /\ srPending = [r \in RevealEls |-> 0]
    /\ srDelivered = {}
    /\ acObserved = Observers(w).acObserved
    /\ acDelivered = FALSE
    /\ imgObserved = Observers(w).imgObserved
    /\ imgLoaded = FALSE
    /\ imgDelivered = FALSE

\* no counter animation has started
CountersIdle ==
    /\ counted = FALSE
    /\ loops = {}
    /\ text = 0
    /\ lastWrites = <<>>
    /\ frames = 0
    /\ starts = 0

\* the revealers and counters of the initialised page, nothing scrolled into view
\* yet: full motion, native lazy loading, data-counter="0"
RevealIdle ==
    /\ reducedMotion = FALSE
    /\ nativeLazy = TRUE
    /\ target = 0
    /\ CountersIdle

-----------------------------------------------------------------------------
(* Typing into #phone *)

\* the keystrokes of the documented scenario, "11987654321"
Scenario == <<"1", "1", "9", "8", "7", "6", "5", "4", "3", "2", "1">>
ScenarioMasked ==
    <<"(", "1", "1", ")", " ", "9", "8", "7", "6", "5", "-", "4", "3", "2", "1">>
\* another digit, and a key that is no digit
AltDigit == "0"
OtherKeys == {"a"}

\* the digit keys offered when the control already shows n digits
DigitKeys(n) == IF n < Len(Scenario) THEN {Scenario[n + 1], AltDigit} ELSE {AltDigit}

InsertAt(s, pos, c) == SubSeq(s, 1, pos) \o <<c>> \o SubSeq(s, pos + 1, Len(s))

formRest == <<required, focus, btnLabel, btnDisabled, feedbackDisplay,
              successDisplay, submits>>

\* a digit key typed at the end of the text
TypeDigit ==
    \E c \in DigitKeys(Len(StripNonDigits(value[PhoneField]))) :
        /\ InputListeners(PhoneField, value[PhoneField] \o <<c>>)
        /\ onScript' = (/\ onScript
                        /\ Len(value[PhoneField]) < Len(ScenarioMasked)
                        /\ c = Scenario[Len(StripNonDigits(value[PhoneField])) + 1])
        /\ UNCHANGED <<formRest, clockVars>>

\* a key that is no digit, typed with the caret before or after the text
TypeOther ==
    \E c \in OtherKeys, pos \in {0, Len(value[PhoneField])} :
        /\ InputListeners(PhoneField, InsertAt(value[PhoneField], pos, c))
        /\ onScript' = FALSE
        /\ UNCHANGED <<formRest, clockVars>>

\* the last character deleted
Backspace ==
    /\ value[PhoneField] # <<>>
    /\ InputListeners(PhoneField,
                      SubSeq(value[PhoneField], 1, Len(value[PhoneField]) - 1))
    /\ onScript' = FALSE
    /\ UNCHANGED <<formRest, clockVars>>

\* the control loses focus
BlurPhone ==
    /\ BlurListener(PhoneField)
    /\ UNCHANGED <<value, rawInput, onScript, formRest, clockVars>>

Empty == [f \in FieldSet |-> <<>>]
NoErrors == [f \in FieldSet |-> FALSE]
OriginalLabel == "Enviar"
LoadingLabel == "<span>Enviando...</span>"

\* the form as the page shows it first; the phone control may or may not be required
FormIdle ==
    /\ value = Empty
    /\ error = NoErrors
    /\ required \in {[f \in FieldSet |-> IF f = PhoneField THEN r ELSE TRUE] :
                        r \in BOOLEAN}
    /\ rawInput = <<>>
    /\ focus = "none"
    /\ btnLabel = OriginalLabel
    /\ btnDisabled = FALSE
    /\ feedbackDisplay = "initial"
    /\ successDisplay = "initial"
    /\ submits = 0

\* no timer: what lastFired holds after a step that ran no timer callback
NoTimer == [id |-> 0, kind |-> "none", at |-> 0, due |-> 0, originalText |-> ""]

\* the element writes of the constructors that ran, as initComponents left them
InitialWrites == ConstructionWrites(wired)

\* no event has been dispatched yet
PageLoad == [kind |-> "load", wasOpen |-> FALSE]

ClockIdle == now = 0 /\ timers = {} /\ lastFired = NoTimer

\* the navigation of a page loaded at the top, its menu closed
NavIdle ==
    /\ isOpen = FALSE
    /\ menuActive = FALSE
    /\ ariaExpanded = "false"
    /\ bodyOverflow = ""
    /\ scrollY = 0
    /\ scrollTo = {}
    /\ scrollSince = 0
    /\ navbarScrolled = FALSE
    /\ inThrottle = FALSE
    /\ handleScrollAt = 0
    /\ calls = <<>>
    /\ usingMouse = FALSE
    /\ navEvent = PageLoad

InitMask ==
    /\ FormIdle /\ onScript = TRUE /\ ClockIdle /\ NavIdle
    /\ RevealIdle /\ AppIdle /\ ObserversIdle(wired)
    /\ domWrites = InitialWrites
NextMask ==
    \/ TypeDigit /\ UNCHANGED notForm
    \/ TypeOther /\ UNCHANGED notForm
    \/ Backspace /\ UNCHANGED notForm
    \/ BlurPhone /\ UNCHANGED notForm
SpecMask == InitMask /\ [][NextMask]_vars

-----------------------------------------------------------------------------
(* Timers (setTimeout) and the clock *)

MaxTime == 9000
MaxSubmits == 2

\* the delay of the simulated API call, and the time the success message stays
SubmitDelay == 2000
HideDelay == 5000

\* time advances to the next multiple of this step, or up to the next timer
Quantum == SubmitDelay

\* timers run in order of their due time, then in order of registration
Before(t, u) ==
    \/ t.due < u.due
    \/ t.due = u.due /\ t.at < u.at
    \/ t.due = u.due /\ t.at = u.at /\ t.id < u.id
NextTimer == CHOOSE t \in timers : \A u \in timers \ {t} : Before(t, u)

\* the time within which a scroll started by window.scrollTo reaches its offset
MaxScrollTime == 300

\* time passes: to the next multiple of the step q or up to the next timer, never
\* past a timer; a scroll in progress is given MaxScrollTime
AdvanceBy(q, max) ==
    \E d \in {q - (now % q)} \cup {t.due - now : t \in timers} :
        /\ d > 0
        /\ now + d <= max
        /\ scrollTo # {} => now + d <= scrollSince + MaxScrollTime
        /\ \A t \in timers : t.due >= now + d
        /\ now' = now + d
        /\ lastFired' = NoTimer
        /\ UNCHANGED timers

Advance == AdvanceBy(Quantum, MaxTime) /\ UNCHANGED formVars

-----------------------------------------------------------------------------
(* FormHandler.handleSubmit *)

\* a submission that validateForm rejects: the first marked control is focused.
\* (focus() blurs the control that had focus; its blur listener validates it once
\* more, with the text validateForm has just seen, and leaves the marks as they are)
SubmitInvalid ==
    LET marks == validateForm(error, value, required)
    IN  /\ error' = marks
        /\ focus' = IF FirstError(marks) # "none" THEN FirstError(marks) ELSE focus
        /\ lastFired' = NoTimer
        /\ UNCHANGED <<value, required, rawInput, onScript, btnLabel, btnDisabled,
                       feedbackDisplay, successDisplay, now, timers>>

\* a submission that validateForm accepts: loading state, and the 2000 ms timer
SubmitValid ==
    /\ error' = validateForm(error, value, required)
    /\ btnLabel' = LoadingLabel
    /\ btnDisabled' = TRUE
    /\ timers' = timers \cup {[id |-> submits + 1, kind |-> "submit", at |-> now,
                               due |-> now + SubmitDelay, originalText |-> btnLabel]}
    /\ lastFired' = NoTimer
    /\ UNCHANGED <<value, required, rawInput, onScript, focus, feedbackDisplay,
                   successDisplay, now>>

handleSubmit ==
    /\ submits < MaxSubmits
    /\ submits' = submits + 1
    /\ IF FormValid(value, required) THEN SubmitValid ELSE SubmitInvalid

\* the callback without the line that enables the submit control again
SubmitTimeoutStaysDisabled(t) ==
    /\ value' = Empty
    /\ feedbackDisplay' = "block"
    /\ successDisplay' = "flex"
    /\ btnLabel' = t.originalText
    /\ btnDisabled' = btnDisabled
    /\ timers' = (timers \ {t}) \cup {[id |-> t.id, kind |-> "hide", at |-> now,
                                       due |-> now + HideDelay, originalText |-> ""]}
    /\ smoothScrollTo(FormTop, FormOffset)
    /\ UNCHANGED <<error, required, rawInput, onScript, focus, submits>>

\* the callback of the 2000 ms timer t; its last call scrolls the window to the form
SubmitTimeout(t) ==
    /\ value' = Empty
    /\ feedbackDisplay' = "block"
    /\ successDisplay' = "flex"
    /\ btnLabel' = t.originalText
    /\ btnDisabled' = FALSE
    /\ timers' = (timers \ {t}) \cup {[id |-> t.id, kind |-> "hide", at |-> now,
                                       due |-> now + HideDelay, originalText |-> ""]}
    /\ smoothScrollTo(FormTop, FormOffset)
    /\ UNCHANGED <<error, required, rawInput, onScript, focus, submits>>

\* the callback of the 5000 ms timer t
HideTimeout(t) ==
    /\ feedbackDisplay' = "none"
    /\ successDisplay' = "none"
    /\ timers' = timers \ {t}
    /\ UNCHANGED <<value, error, required, rawInput, onScript, focus, btnLabel,
                   btnDisabled, submits, scrollY, scrollTo, scrollSince>>

\* the next timer of the form runs; its callbacks leave the rest of the page alone
FireTimer ==
    /\ timers # {}
    /\ NextTimer.kind \in {"submit", "hide"}
    /\ NextTimer.due <= now
    /\ lastFired' = NextTimer
    /\ now' = now
    /\ IF NextTimer.kind = "submit" THEN SubmitTimeout(NextTimer)
       ELSE HideTimeout(NextTimer)
    /\ UNCHANGED <<isOpen, menuActive, ariaExpanded, bodyOverflow, navbarScrolled,
                   inThrottle, handleScrollAt, calls, usingMouse, navEvent>>

-----------------------------------------------------------------------------
(* The user at the contact form *)

Text(f) ==
    CASE f = "name" -> {<<"A", "n", "a">>}
      [] f = "email" -> {<<"n", "o", "t", "-", "a", "n", "-", "e", "m", "a", "i", "l">>,
                         <<"a", "@", "b", ".", "c", "o">>}
      [] f = "phone" -> {<<"1", "1", "9">>, Scenario}
      [] f = "service" -> {<<"a", "u", "t", "o">>}

\* focus moves to control f; the control that had it gets a blur event
FocusField(f) ==
    /\ focus # f
    /\ IF focus \in FieldSet THEN BlurListener(focus) ELSE error' = error
    /\ focus' = f
    /\ lastFired' = NoTimer
    /\ UNCHANGED <<value, required, rawInput, onScript, btnLabel, btnDisabled,
                   feedbackDisplay, successDisplay, submits, now, timers>>

\* focus leaves the form
BlurField ==
    /\ focus \in FieldSet
    /\ BlurListener(focus)
    /\ focus' = "none"
    /\ lastFired' = NoTimer
    /\ UNCHANGED <<value, required, rawInput, onScript, btnLabel, btnDisabled,
                   feedbackDisplay, successDisplay, submits, now, timers>>

\* the focused control's text is replaced or cleared
InputField(f) ==
    \E raw \in Text(f) \cup {<<>>} :
        /\ focus = f
        /\ raw # value[f]
        /\ InputListeners(f, raw)
        /\ lastFired' = NoTimer
        /\ UNCHANGED <<required, onScript, focus, btnLabel, btnDisabled,
                       feedbackDisplay, successDisplay, submits, now, timers>>


\* the user at the controls of the form with an optional phone control (SpecMask
\* covers the required one): focus, typed and cleared texts, blur
InitFields ==
    /\ FormIdle /\ ~required[PhoneField] /\ onScript = FALSE
    /\ ClockIdle /\ NavIdle /\ RevealIdle /\ AppIdle /\ ObserversIdle(wired)
    /\ domWrites = InitialWrites
NextFields ==
    \/ (\E f \in FieldSet : FocusField(f)) /\ UNCHANGED notForm
    \/ BlurField /\ UNCHANGED notForm
    \/ (\E f \in FieldSet : InputField(f)) /\ UNCHANGED notForm
SpecFields == InitFields /\ [][NextFields]_vars

-----------------------------------------------------------------------------
(* The user at the email control *)

MaxEmailLen == 6
EmailKeys == {"a", "@", ".", " ", "\t"}

\* a key typed at the end of the email control's text
TypeEmail ==
    \E c \in EmailKeys :
        /\ focus = "email"
        /\ Len(value["email"]) < MaxEmailLen
        /\ InputListeners("email", value["email"] \o <<c>>)
        /\ lastFired' = NoTimer
        /\ UNCHANGED <<required, onScript, focus, btnLabel, btnDisabled,
                       feedbackDisplay, successDisplay, submits, now, timers>>

InitEmail ==
    /\ FormIdle /\ onScript = FALSE
    /\ ClockIdle /\ NavIdle /\ RevealIdle /\ AppIdle /\ ObserversIdle(wired)
    /\ domWrites = InitialWrites
NextEmail ==
    \/ FocusField("email") /\ UNCHANGED notForm
    \/ BlurField /\ UNCHANGED notForm
    \/ TypeEmail /\ UNCHANGED notForm
    \/ InputField("email") /\ UNCHANGED notForm
SpecEmail == InitEmail /\ [][NextEmail]_vars

-----------------------------------------------------------------------------
(* The user at the phone control: focus, keys, pasted texts, blur *)

InitPhone ==
    /\ FormIdle /\ onScript = FALSE
    /\ ClockIdle /\ NavIdle /\ RevealIdle /\ AppIdle /\ ObserversIdle(wired)
    /\ domWrites = InitialWrites
NextPhone ==
    \/ FocusField(PhoneField) /\ UNCHANGED notForm
    \/ BlurField /\ UNCHANGED notForm
    \/ focus = PhoneField /\ TypeDigit /\ UNCHANGED notForm
    \/ focus = PhoneField /\ TypeOther /\ UNCHANGED notForm
    \/ focus = PhoneField /\ Backspace /\ UNCHANGED notForm
    \/ InputField(PhoneField) /\ UNCHANGED notForm
SpecPhone == InitPhone /\ [][NextPhone]_vars

-----------------------------------------------------------------------------
(* Navigation *)

\* the limit of the throttled scroll listener
ThrottleLimit == 100
MaxNavTime == 300

openMenu ==
    /\ isOpen' = TRUE
    /\ menuActive' = TRUE
    /\ ariaExpanded' = "true"
    /\ bodyOverflow' = "hidden"

\* closing without releasing the scroll lock
closeMenuKeepsLock ==
    /\ isOpen' = FALSE
    /\ menuActive' = FALSE
    /\ ariaExpanded' = "false"
    /\ bodyOverflow' = bodyOverflow

closeMenu ==
    /\ isOpen' = FALSE
    /\ menuActive' = FALSE
    /\ ariaExpanded' = "false"
    /\ bodyOverflow' = ""

toggleMenu == IF isOpen THEN closeMenu ELSE openMenu

menuVars == <<isOpen, menuActive, ariaExpanded, bodyOverflow>>
scrollVars == <<scrollY, scrollTo, scrollSince, navbarScrolled, inThrottle, handleScrollAt,
                calls>>

\* the elements openMenu and closeMenu write: the menu's class list, the toggle's
\* aria-expanded and the body's style
MenuWrites == {<<"Navigation", "menu">>, <<"Navigation", "toggle">>,
               <<"Navigation", "body">>}

Event(kind) == [kind |-> kind, wasOpen |-> isOpen]

\* the document's click listener without its test of the toggle
OutsideClosesMenuTestOnly(open, inMenu, inToggle) == open /\ ~inMenu

\* the document's click listener closes the menu: it finds the menu open and the
\* click's target neither inside the menu nor inside the toggle
OutsideCloses(open, inMenu, inToggle) == open /\ ~inMenu /\ ~inToggle

\* a click on the toggle: its own listener toggles the menu, then the document's
\* listener, reached by bubbling, finds the target inside the toggle
ClickToggle ==
    /\ IF OutsideCloses(~isOpen, FALSE, TRUE) THEN closeMenu ELSE toggleMenu
    /\ domWrites' = domWrites \cup MenuWrites
    /\ navEvent' = Event("toggle")
    /\ lastFired' = NoTimer
    /\ UNCHANGED <<scrollVars, usingMouse, now, timers>>

scrollRest == <<navbarScrolled, inThrottle, handleScrollAt, calls>>

\* a click on a menu link, its listeners in registration order: Navigation's closes
\* an open menu; SmoothScroll's scrolls to the section when the link's href names
\* one (it returns early for "#" and for a missing target); the document's
\* listener then finds the menu closed
ClickLink ==
    \E section \in BOOLEAN :
        /\ IF isOpen THEN closeMenu ELSE UNCHANGED menuVars
        /\ IF section THEN smoothScrollTo(SectionTop, NavbarHeight)
           ELSE UNCHANGED <<scrollY, scrollTo, scrollSince>>
        /\ domWrites' = IF isOpen THEN domWrites \cup MenuWrites ELSE domWrites
        /\ navEvent' = Event("link")
        /\ lastFired' = NoTimer
        /\ UNCHANGED <<scrollRest, usingMouse, now, timers>>

\* a click inside the menu but on no link: the document's listener finds the
\* target inside the menu
ClickMenu ==
    /\ IF OutsideCloses(isOpen, TRUE, FALSE) THEN closeMenu ELSE UNCHANGED menuVars
    /\ domWrites' = IF OutsideCloses(isOpen, TRUE, FALSE)
                    THEN domWrites \cup MenuWrites ELSE domWrites
    /\ navEvent' = Event("menu")
    /\ lastFired' = NoTimer
    /\ UNCHANGED <<scrollVars, usingMouse, now, timers>>

\* a click outside the menu and the toggle, on an element without a click listener
\* of its own: the document's listener
ClickOutside ==
    /\ IF OutsideCloses(isOpen, FALSE, FALSE) THEN closeMenu ELSE UNCHANGED menuVars
    /\ domWrites' = IF OutsideCloses(isOpen, FALSE, FALSE)
                    THEN domWrites \cup MenuWrites ELSE domWrites
    /\ navEvent' = Event("outside")
    /\ lastFired' = NoTimer
    /\ UNCHANGED <<scrollVars, usingMouse, now, timers>>

\* a click on the back-to-top button: BackToTop's listener scrolls to the top, then
\* the document's listener finds the target outside the menu and the toggle
ClickBackToTop ==
    /\ IF OutsideCloses(isOpen, FALSE, FALSE) THEN closeMenu ELSE UNCHANGED menuVars
    /\ windowScrollTo(0)
    /\ domWrites' = IF OutsideCloses(isOpen, FALSE, FALSE)
                    THEN domWrites \cup MenuWrites ELSE domWrites
    /\ navEvent' = Event("outside")
    /\ lastFired' = NoTimer
    /\ UNCHANGED <<scrollRest, usingMouse, now, timers>>

\* a click on the hero's scroll indicator: HeroScroll's listener looks the section
\* #produtos up in the document and scrolls to it when there is one, then the
\* document's listener finds the target outside
ClickHeroScroll ==
    \E nextSection \in BOOLEAN :
        /\ IF OutsideCloses(isOpen, FALSE, FALSE) THEN closeMenu ELSE UNCHANGED menuVars
        /\ IF nextSection THEN smoothScrollTo(SectionTop, NavbarHeight)
           ELSE UNCHANGED <<scrollY, scrollTo, scrollSince>>
        /\ domWrites' = IF OutsideCloses(isOpen, FALSE, FALSE)
                        THEN domWrites \cup MenuWrites ELSE domWrites
        /\ navEvent' = Event("outside")
        /\ lastFired' = NoTimer
        /\ UNCHANGED <<scrollRest, usingMouse, now, timers>>

\* Navigation's listener testing the legacy key name "Esc"
KeyDownLegacyEsc(key) ==
    /\ IF key = "Esc" /\ isOpen THEN closeMenu ELSE UNCHANGED menuVars
    /\ usingMouse' = IF key = "Tab" THEN FALSE ELSE usingMouse
    /\ domWrites' = domWrites
                    \cup (IF key = "Esc" /\ isOpen THEN MenuWrites ELSE {})
                    \cup (IF key = "Tab" THEN {<<"AccessibilityHelpers", "body">>} ELSE {})
    /\ navEvent' = Event(key)
    /\ lastFired' = NoTimer
    /\ UNCHANGED <<scrollVars, now, timers>>

\* a keydown on the document, its listeners in registration order: Navigation's
\* (Escape closes an open menu), then AccessibilityHelpers' (Tab removes the body's
\* class using-mouse; Escape dispatches escape-pressed, which nothing listens to)
KeyDown(key) ==
    /\ IF key = "Escape" /\ isOpen THEN closeMenu ELSE UNCHANGED menuVars
    /\ usingMouse' = IF key = "Tab" THEN FALSE ELSE usingMouse
    /\ domWrites' = domWrites
                    \cup (IF key = "Escape" /\ isOpen THEN MenuWrites ELSE {})
                    \cup (IF key = "Tab" THEN {<<"AccessibilityHelpers", "body">>} ELSE {})
    /\ navEvent' = Event(key)
    /\ lastFired' = NoTimer
    /\ UNCHANGED <<scrollVars, now, timers>>

\* a mousedown on the document: AccessibilityHelpers.setupFocusVisible
MouseDown ==
    /\ usingMouse' = TRUE
    /\ domWrites' = domWrites \cup {<<"AccessibilityHelpers", "body">>}
    /\ navEvent' = Event("mousedown")
    /\ lastFired' = NoTimer
    /\ UNCHANGED <<menuVars, scrollVars, now, timers>>

\* Navigation.handleScroll with the window at offset y
handleScroll(y) ==
    /\ navbarScrolled' = (y > ScrollThreshold)
    /\ handleScrollAt' = now

\* the listener without the flag: every event calls handleScroll
ScrollUnthrottled(y) ==
    /\ scrollY' = y
    /\ handleScroll(y)
    /\ calls' = Append(calls, now)
    /\ navEvent' = Event("scroll")
    /\ lastFired' = NoTimer
    /\ scrollTo' = scrollTo \ {y}
    /\ scrollSince' = IF scrollTo \ {y} = {} THEN 0 ELSE scrollSince
    /\ UNCHANGED <<menuVars, inThrottle, timers, usingMouse, domWrites, now>>

\* a scroll event with the window now at offset y: throttle(handleScroll, 100).
\* The event at the offset a window.scrollTo call asked for ends that scroll.
Scroll(y) ==
    /\ scrollY' = y
    /\ scrollTo' = scrollTo \ {y}
    /\ scrollSince' = IF scrollTo \ {y} = {} THEN 0 ELSE scrollSince
    /\ IF ~inThrottle
       THEN /\ handleScroll(y)
            /\ calls' = Append(calls, now)
            /\ inThrottle' = TRUE
            /\ timers' = timers \cup {[id |-> 0, kind |-> "throttle", at |-> now,
                                       due |-> now + ThrottleLimit, originalText |-> ""]}
       ELSE UNCHANGED <<navbarScrolled, handleScrollAt, calls, inThrottle, timers>>
    /\ navEvent' = Event("scroll")
    /\ lastFired' = NoTimer
    /\ UNCHANGED <<menuVars, usingMouse, domWrites, now>>

\* the offsets at which a scroll from offset a to offset b fires scroll events:
\* offsets on the way, then b
ScrollPath(a, b) ==
    {y \in ScrollPositions : (a < y /\ y < b) \/ (b < y /\ y < a)} \cup {b}

\* a scroll event of the scroll that window.scrollTo started
ScrollArrives ==
    \E b \in scrollTo : \E y \in ScrollPath(scrollY, b) : Scroll(y)

\* the callback of the throttle's timer
ThrottleTimeout ==
    /\ timers # {}
    /\ NextTimer.kind = "throttle"
    /\ NextTimer.due <= now
    /\ inThrottle' = FALSE
    /\ timers' = timers \ {NextTimer}
    /\ lastFired' = NextTimer
    /\ navEvent' = Event("timer")
    /\ UNCHANGED <<menuVars, scrollY, scrollTo, scrollSince, navbarScrolled,
                   handleScrollAt, calls, usingMouse, domWrites, now>>

NavAdvance == AdvanceBy(ThrottleLimit \div 2, MaxNavTime) /\ UNCHANGED <<navVars, domWrites>>

\* Navigation's constructor and init on a page with its menu closed: handleScroll
\* is called once, wherever the page was loaded
InitNav ==
    /\ isOpen = FALSE
    /\ menuActive = FALSE
    /\ ariaExpanded \in {"null", "false"}
    /\ bodyOverflow = ""
    /\ scrollY \in ScrollPositions
    /\ scrollTo = {}
    /\ scrollSince = 0
    /\ navbarScrolled = (scrollY > ScrollThreshold)
    /\ inThrottle = FALSE
    /\ handleScrollAt = 0
    /\ calls = <<>>
    /\ usingMouse = FALSE
    /\ navEvent = PageLoad
    /\ ClockIdle
    /\ FormIdle /\ required[PhoneField] /\ onScript = FALSE
    /\ RevealIdle /\ AppIdle /\ ObserversIdle(wired)
    /\ domWrites = InitialWrites

NextNav ==
    \/ ClickToggle /\ UNCHANGED notNav
    \/ ClickLink /\ UNCHANGED notNav
    \/ ClickMenu /\ UNCHANGED notNav
    \/ ClickOutside /\ UNCHANGED notNav
    \/ ClickBackToTop /\ UNCHANGED notNav
    \/ ClickHeroScroll /\ UNCHANGED notNav
    \/ (\E key \in {"Escape", "Tab"} : KeyDown(key)) /\ UNCHANGED notNav
    \/ MouseDown /\ UNCHANGED notNav
    \/ (\E y \in ScrollPositions : Scroll(y)) /\ UNCHANGED notNav
    \/ ScrollArrives /\ UNCHANGED notNav
    \/ ThrottleTimeout /\ UNCHANGED notNav
    \/ NavAdvance /\ UNCHANGED notNav
SpecNav == InitNav /\ [][NextNav]_vars

-----------------------------------------------------------------------------
(* Submissions of the contact form: the timers, and the scroll that a        *)
(* successful submission starts                                               *)

\* the forms the user may have filled in: each control left empty or holding one
\* of its texts, #phone as the mask left it
FilledForms ==
    {[name |-> a, email |-> b, phone |-> maskPhone(c), service |-> d] :
        a \in Text("name") \cup {<<>>}, b \in Text("email") \cup {<<>>},
        c \in Text("phone") \cup {<<>>}, d \in Text("service") \cup {<<>>}}

\* the form (its phone control optional) as the user has filled it in, control by
\* control: the blur listener has marked the controls left with an invalid text
InitForm ==
    /\ rawInput \in Text(PhoneField) \cup {<<>>}
    /\ value \in {v \in FilledForms : v[PhoneField] = maskPhone(rawInput)}
    /\ required = [f \in FieldSet |-> f # PhoneField]
    /\ error = [f \in FieldSet |->
                    value[f] # <<>> /\ ~FieldValid(f, value[f], required[f])]
    /\ focus = "none"
    /\ btnLabel = OriginalLabel
    /\ btnDisabled = FALSE
    /\ feedbackDisplay = "initial"
    /\ successDisplay = "initial"
    /\ submits = 0
    /\ onScript = FALSE
    /\ ClockIdle /\ NavIdle /\ RevealIdle /\ AppIdle /\ ObserversIdle(wired)
    /\ domWrites = InitialWrites
\* submissions, their timers and scroll; the user corrects the control a rejected
\* submission has focused, or leaves it
NextForm ==
    \/ (\E f \in FieldSet : InputField(f)) /\ UNCHANGED notForm
    \/ BlurField /\ UNCHANGED notForm
    \/ handleSubmit /\ UNCHANGED notForm
    \/ FireTimer /\ UNCHANGED <<revealVars, appVars, domWrites>>
    \/ ScrollArrives /\ UNCHANGED notNav
    \/ ThrottleTimeout /\ UNCHANGED notNav
    \/ Advance /\ UNCHANGED notForm
SpecForm == InitForm /\ [][NextForm]_vars

-----------------------------------------------------------------------------
(* Counter animations: ScrollReveal.animateCounter, AnimatedCounters.animateValue *)

\* const duration = 2000; const step = target / (duration / 16)
Duration == 2000
FrameMs == 16
Steps == Duration \div FrameMs

MaxTarget == 130

\* After j additions of step, current is j * target / Steps up to the rounding of
\* floating-point addition.  The rounding shows only where the exact sum is a whole
\* number: the sum the code holds may then lie just below it, so that Math.floor
\* gives one less and a comparison with that whole number gives "less".  With step
\* a whole number (Steps divides target) every sum is exact.
MayRoundLow(j, T) == T > 0 /\ T % Steps # 0 /\ (j * T) % Steps = 0

\* Math.floor(current) after j additions; low: the sum lies just below its exact value
FloorCurrent(j, T, low) == ((j * T) \div Steps) - (IF low THEN 1 ELSE 0)

\* current < target after j additions
BelowTarget(j, T, low) == j * T < Steps * T \/ (low /\ j * T = Steps * T)

\* the last call repeats the value before it instead of writing the target
CounterUpdateStalls(j, T, low) ==
    IF BelowTarget(j, T, low)
    THEN [writes |-> <<FloorCurrent(j, T, low)>>, again |-> TRUE]
    ELSE [writes |-> <<FloorCurrent(j - 1, T, FALSE)>>, again |-> FALSE]

\* one call of animateCounter's updateCounter, the j-th: the values written, in
\* order, and whether another frame is requested
CounterUpdate(j, T, low) ==
    IF BelowTarget(j, T, low)
    THEN [writes |-> <<FloorCurrent(j, T, low)>>, again |-> TRUE]
    ELSE [writes |-> <<T>>, again |-> FALSE]

\* the sum is not clamped: current = current + step
ValueUpdateNoMin(j, T, low) ==
    IF BelowTarget(j, T, low)
    THEN [writes |-> <<FloorCurrent(j, T, low)>>, again |-> TRUE]
    ELSE [writes |-> <<FloorCurrent(j, T, FALSE), T>>, again |-> FALSE]

\* one call of animateValue's updateCounter, the j-th:
\* current = Math.min(current + step, target)
ValueUpdate(j, T, low) ==
    LET clamped == j * T >= Steps * T /\ ~(low /\ j * T = Steps * T)
        shown == IF clamped THEN T ELSE FloorCurrent(j, T, low)
    IN  IF clamped
        THEN [writes |-> <<shown, T>>, again |-> FALSE]
        ELSE [writes |-> <<shown>>, again |-> TRUE]

\* the component whose method fn is
Owner(fn) == IF fn = "animateCounter" THEN "ScrollReveal" ELSE "AnimatedCounters"

updateCounter(fn, j, T, low) ==
    IF fn = "animateCounter" THEN CounterUpdate(j, T, low) ELSE ValueUpdate(j, T, low)

Roundings(j, T) == IF MayRoundLow(j, T) THEN BOOLEAN ELSE {FALSE}

\* the j-th updateCounter call of the loop of fn runs
RunUpdate(fn, j, rest) ==
    \E low \in Roundings(j, target) :
        LET u == updateCounter(fn, j, target, low)
        IN  /\ lastWrites' = u.writes
            /\ text' = u.writes[Len(u.writes)]
            /\ loops' = IF u.again THEN rest \cup {[fn |-> fn, k |-> j]} ELSE rest
            /\ frames' = frames + 1

\* the animation started without element.classList.add('counted')
StartAnimationNoFlag(fn) ==
    /\ counted' = counted
    /\ starts' = starts + 1
    /\ domWrites' = domWrites \cup {<<Owner(fn), "c1">>}
    /\ RunUpdate(fn, 1, loops)
    /\ UNCHANGED target

\* animateCounter(element) / animateValue(element): the class counted is set and
\* updateCounter is called once at once
StartAnimation(fn) ==
    /\ counted' = TRUE
    /\ starts' = starts + 1
    /\ domWrites' = domWrites \cup {<<Owner(fn), "c1">>}
    /\ RunUpdate(fn, 1, loops)
    /\ UNCHANGED target

\* an animation frame: the updateCounter callback of one waiting loop runs
AnimationFrame ==
    \E l \in loops :
        /\ RunUpdate(l.fn, l.k + 1, loops \ {l})
        /\ UNCHANGED <<target, counted, starts, domWrites>>

\* one counter element, animated once by either function
InitCounter ==
    /\ target \in (-2)..MaxTarget
    /\ CountersIdle
    /\ reducedMotion = FALSE
    /\ nativeLazy = TRUE
    /\ FormIdle /\ required[PhoneField] /\ onScript = FALSE
    /\ NavIdle /\ ClockIdle /\ AppIdle /\ ObserversIdle(wired)
    /\ domWrites = InitialWrites

NextCounter ==
    \/ ~counted /\ StartAnimation("animateCounter")
               /\ UNCHANGED <<reducedMotion, observerVars, notReveal>>
    \/ ~counted /\ StartAnimation("animateValue")
               /\ UNCHANGED <<reducedMotion, observerVars, notReveal>>
    \/ AnimationFrame /\ UNCHANGED <<reducedMotion, observerVars, notReveal>>

\* requestAnimationFrame callbacks are eventually run
SpecCounter == InitCounter /\ [][NextCounter]_vars /\ WF_counterVars(AnimationFrame)

-----------------------------------------------------------------------------
(* Observation-driven revealers: ScrollReveal, AnimatedCounters, LazyImages *)

MaxBatch == 2
RevealTargets == {0, 3, 50}

\* the batches an observer's callback may be handed: entries of observed elements,
\* an element possibly more than once
Batches(E) == UNION {[1..n -> E] : n \in 1..MaxBatch}
Intersecting(batch) == {batch[i].target : i \in {j \in 1..Len(batch) : batch[j].isIntersecting}}
Count(batch, r) == Cardinality({i \in 1..Len(batch) : batch[i] = [target |-> r, isIntersecting |-> TRUE]})

\* ScrollReveal's observer callback: each intersecting entry sets a reveal timeout
\* for its target and unobserves the target
SRDeliver ==
    \E batch \in Batches([target : srObserved, isIntersecting : BOOLEAN]) :
        /\ srPending' = [r \in RevealEls |-> srPending[r] + Count(batch, r)]
        /\ srObserved' = srObserved \ Intersecting(batch)
        /\ srDelivered' = srDelivered \cup Intersecting(batch)
        /\ UNCHANGED <<reducedMotion, counterVars, revealed, acObserved, acDelivered,
                       nativeLazy, imgObserved, imgLoaded, imgDelivered, domWrites>>

\* a reveal timeout of element r runs
SRTimeout(r) ==
    /\ srPending[r] > 0
    /\ srPending' = [srPending EXCEPT ![r] = @ - 1]
    /\ revealed' = revealed \cup {r}
    /\ IF HasCounter(r) /\ ~counted
       THEN StartAnimation("animateCounter")
       ELSE UNCHANGED <<counterVars, domWrites>>
    /\ UNCHANGED <<reducedMotion, srObserved, srDelivered, acObserved, acDelivered,
                   nativeLazy, imgObserved, imgLoaded, imgDelivered>>

\* AnimatedCounters' observer callback, handed entries of the counter element: the
\* first intersecting entry that finds the element not counted animates and
\* unobserves it; the entries after it find it counted
ACDeliver ==
    \E batch \in Batches([target : {"c1"}, isIntersecting : BOOLEAN]) :
        /\ acObserved
        /\ acDelivered' = (acDelivered \/ Intersecting(batch) # {})
        /\ IF Intersecting(batch) # {} /\ ~counted
           THEN StartAnimation("animateValue") /\ acObserved' = FALSE
           ELSE UNCHANGED <<counterVars, acObserved, domWrites>>
        /\ UNCHANGED <<reducedMotion, revealed, srObserved, srPending, srDelivered,
                       nativeLazy, imgObserved, imgLoaded, imgDelivered>>

\* LazyImages' observer callback (browsers without native lazy loading)
LazyDeliver ==
    \E batch \in Batches([target : {"img"}, isIntersecting : BOOLEAN]) :
        /\ imgObserved
        /\ imgDelivered' = (imgDelivered \/ Intersecting(batch) # {})
        /\ imgLoaded' = (imgLoaded \/ Intersecting(batch) # {})
        /\ imgObserved' = (Intersecting(batch) = {})
        /\ domWrites' = IF Intersecting(batch) # {}
                        THEN domWrites \cup {<<"LazyImages", "img">>} ELSE domWrites
        /\ UNCHANGED <<reducedMotion, counterVars, revealed, srObserved, srPending,
                       srDelivered, acObserved, acDelivered, nativeLazy>>

\* the page after ScrollReveal.init, AnimatedCounters.init and LazyImages.init
InitReveal ==
    /\ reducedMotion \in BOOLEAN
    /\ nativeLazy \in BOOLEAN
    /\ target \in RevealTargets
    /\ CountersIdle
    /\ FormIdle /\ required[PhoneField] /\ onScript = FALSE
    /\ NavIdle /\ ClockIdle /\ AppIdle /\ ObserversIdle(wired)
    /\ domWrites = InitialWrites

NextReveal ==
    \/ SRDeliver /\ UNCHANGED notReveal
    \/ (\E r \in RevealEls : SRTimeout(r)) /\ UNCHANGED notReveal
    \/ ACDeliver /\ UNCHANGED notReveal
    \/ LazyDeliver /\ UNCHANGED notReveal
    \/ AnimationFrame /\ UNCHANGED <<reducedMotion, observerVars, notReveal>>
SpecReveal == InitReveal /\ [][NextReveal]_vars

-----------------------------------------------------------------------------
(* The composition root on any page *)

\* any part of the expected markup may be absent; the page may be loaded away from
\* the top
InitApp ==
    /\ pc = "loading"
    /\ readyState \in {"loading", "interactive", "complete"}
    /\ script = "start"
    /\ exported = "unset"
    /\ inits = 0
    /\ markup \in SUBSET Markup
    /\ wired = {}
    /\ touchDevice \in BOOLEAN
    /\ production \in BOOLEAN
    /\ performanceTiming \in BOOLEAN
    /\ reducedMotion \in BOOLEAN
    /\ nativeLazy = TRUE
    /\ target = 0 /\ CountersIdle
    /\ ObserversIdle({})
    /\ FormIdle /\ required[PhoneField] /\ onScript = FALSE
    /\ ClockIdle
    /\ isOpen = FALSE /\ menuActive = FALSE /\ ariaExpanded = "false"
    /\ bodyOverflow = ""
    /\ scrollY \in ScrollPositions /\ scrollTo = {} /\ scrollSince = 0
    /\ navbarScrolled = FALSE /\ inThrottle = FALSE /\ handleScrollAt = 0
    /\ calls = <<>> /\ usingMouse = FALSE /\ navEvent = PageLoad
    /\ domWrites = {}

NextApp ==
    \/ RunScript /\ UNCHANGED notApp
    \/ DOMContentLoaded /\ UNCHANGED notApp
SpecApp == InitApp /\ [][NextApp]_vars

-----------------------------------------------------------------------------
(* Properties of the phone mask (SpecMask) *)

\* the shape (DD) DDDDD-DDDD filled with the eleven digits d
FormatEleven(d) ==
    <<"(", d[1], d[2], ")", " ", d[3], d[4], d[5], d[6], d[7], "-",
      d[8], d[9], d[10], d[11]>>

RawDigits == StripNonDigits(rawInput)

\* C2: a raw text holding at least eleven digits, whatever else is mixed in, is
\* displayed as (d1d2) d3d4d5d6d7-d8d9d10d11 of its first eleven digits, which the
\* validation pattern accepts; the scenario keystrokes end with "(11) 98765-4321".
C2_ElevenDigitsMasked ==
    /\ Len(RawDigits) >= 11 =>
          /\ value[PhoneField] = FormatEleven(SubSeq(RawDigits, 1, 11))
          /\ phoneRegex(value[PhoneField])
    /\ (onScript /\ Len(RawDigits) = Len(Scenario)) =>
          value[PhoneField] = ScenarioMasked

\* more than eleven digits with other characters among them have been masked
C2_Witness ==
    /\ Len(RawDigits) > 11
    /\ Len(rawInput) > Len(RawDigits)
    /\ value[PhoneField] = ScenarioMasked

\* v is a strict prefix of the shape filled with the digits d, holding exactly d
IsShapePrefix(v, d) ==
    LET full == FormatEleven(d \o [i \in 1..(11 - Len(d)) |-> "0"])
    IN  /\ Len(v) < Len(full)
        /\ v = SubSeq(full, 1, Len(v))
        /\ StripNonDigits(v) = d

\* C3: a raw text holding one to ten digits is displayed as a strict prefix of
\* (DD) DDDDD-DDDD filled with those digits in order.
C3_ProgressivePrefix ==
    Len(RawDigits) \in 1..10 => IsShapePrefix(value[PhoneField], RawDigits)

-----------------------------------------------------------------------------
(* Properties of the submission (SpecForm) *)

\* the first control, in document order, whose text validateField rejects
FirstInvalid ==
    Fields[CHOOSE i \in 1..Len(Fields) :
              /\ ~FieldValid(Fields[i], value[Fields[i]], required[Fields[i]])
              /\ \A j \in 1..(i - 1) :
                    FieldValid(Fields[j], value[Fields[j]], required[Fields[j]])]

SubmitHandled == submits' = submits + 1

\* C1: a submit event handled while some control is invalid starts no simulated
\* submission (the submit control and its label stay as they are, no timer is
\* scheduled, the messages stay as they are) and focuses the first invalid control.
C1_InvalidSubmitCancelled ==
    [][(SubmitHandled /\ ~FormValid(value, required)) =>
          /\ btnDisabled' = btnDisabled
          /\ btnLabel' = btnLabel
          /\ timers' = timers
          /\ successDisplay' = successDisplay
          /\ feedbackDisplay' = feedbackDisplay
          /\ focus' = FirstInvalid]_vars

\* the only submission was rejected with the second and the fourth control invalid
C1_Witness ==
    /\ submits = 1 /\ timers = {} /\ successDisplay = "initial" /\ ~btnDisabled
    /\ ~error["name"] /\ error["email"] /\ error["service"]
    /\ focus = "email"

\* C4: a valid submission disables the submit control and replaces its label at
\* once; its timer runs exactly 2000 ms later, resets the controls, enables the
\* submit control with the label it had, and shows the success message; the hide
\* timer runs exactly 5000 ms after that; the success message appears in no step
\* but the 2000 ms timer's.
C4_SubmissionTimeline ==
    [][/\ (SubmitHandled /\ FormValid(value, required)) =>
             /\ btnDisabled' /\ btnLabel' = LoadingLabel
             /\ successDisplay' = successDisplay
             /\ \E t \in timers' \ timers :
                   t.kind = "submit" /\ t.due = now + 2000 /\ t.originalText = btnLabel
       /\ lastFired'.kind = "submit" =>
             /\ now' = lastFired'.at + 2000
             /\ value' = Empty
             /\ ~btnDisabled' /\ btnLabel' = lastFired'.originalText
             /\ successDisplay' = "flex" /\ feedbackDisplay' = "block"
             /\ \E t \in timers' \ timers : t.kind = "hide" /\ t.due = now' + 5000
       /\ lastFired'.kind = "hide" =>
             /\ now' = lastFired'.at + 5000
             /\ successDisplay' = "none" /\ feedbackDisplay' = "none"
       /\ (successDisplay # "flex" /\ successDisplay' = "flex") =>
             lastFired'.kind = "submit"]_vars

\* one submission has run its whole course: shown at 2000 ms, hidden at 7000 ms
C4_Witness ==
    /\ submits = 1 /\ now = 7000 /\ lastFired.kind = "hide" /\ lastFired.at = 2000
    /\ successDisplay = "none" /\ ~btnDisabled /\ btnLabel = OriginalLabel

-----------------------------------------------------------------------------
(* Properties of the controls' listeners (SpecFields) *)

\* the control f loses focus in the step (its blur listener runs)
Blurs(f) == focus = f /\ focus' # f /\ submits' = submits

\* the step is an input event on the focused control f
Inputs(f) ==
    /\ focus = f /\ focus' = f
    /\ now' = now /\ submits' = submits
    /\ lastFired'.kind = "none"

\* the text the validation listener of control f reads during an input event: the
\* text as typed (on #phone the mask runs after it)
TextRead(f) == IF f = PhoneField THEN rawInput' ELSE value'[f]

\* C15: an input event on a control that is not marked invalid leaves its mark
\* alone; an input event on a marked control and every blur event recompute the
\* mark from the control's text; the marks of the other controls stay as they are.
C15_ValidationTriggers ==
    [][\A f \in FieldSet :
         /\ (Inputs(f) /\ ~error[f]) => error' = error
         /\ (Inputs(f) /\ error[f])
              => error' = [error EXCEPT ![f] = ~FieldValid(f, TextRead(f), required[f])]
         /\ Blurs(f)
              => error' = [error EXCEPT ![f] = ~FieldValid(f, value[f], required[f])]]_vars

\* "not-an-email" was typed into the unmarked email control, which stays unmarked
C15_Witness ==
    /\ focus = "email"
    /\ value["email"] = <<"n", "o", "t", "-", "a", "n", "-", "e", "m", "a", "i", "l">>
    /\ ~error["email"]

\* C18: after any submit events, also ones handled while an earlier submission's
\* 2000 ms delay was pending, once no such delay is pending the submit control is
\* enabled and shows the label it had before the first submission.
C18_LabelRestored ==
    (\A t \in timers : t.kind # "submit")
    => (~btnDisabled /\ btnLabel = OriginalLabel)

\* C19: a success message revealed at the end of a submission stays visible for the
\* 5000 ms that follow: while the hide timer set at a reveal has not come due, the
\* message and its container are shown.
C19_VisibleFullTime ==
    \A t \in timers :
        (t.kind = "hide" /\ now < t.due)
        => (successDisplay = "flex" /\ feedbackDisplay = "block")

-----------------------------------------------------------------------------
(* Properties of the email validation (SpecEmail) *)

\* a text without whitespace and without @
Plain(v) == \A i \in 1..Len(v) : v[i] \notin Whitespace \cup {"@"}

\* v is local@domain.tld: a non-empty local part, one @, then a dot with non-empty
\* text on both sides; no whitespace and no further @ anywhere
LocalAtDomainTld(v) ==
    \E a, d \in 1..Len(v) :
        /\ a < d
        /\ v[a] = "@" /\ v[d] = "."
        /\ SubSeq(v, 1, a - 1) # <<>> /\ Plain(SubSeq(v, 1, a - 1))
        /\ SubSeq(v, a + 1, d - 1) # <<>> /\ Plain(SubSeq(v, a + 1, d - 1))
        /\ SubSeq(v, d + 1, Len(v)) # <<>> /\ Plain(SubSeq(v, d + 1, Len(v)))

NotAnEmail == <<"n", "o", "t", "-", "a", "n", "-", "e", "m", "a", "i", "l">>
ABCo == <<"a", "@", "b", ".", "c", "o">>

\* C13: when the email control holding a non-empty trimmed text is validated, it
\* is marked invalid exactly when the text is not of the form local@domain.tld;
\* "not-an-email" is marked invalid and "a@b.co" is left unmarked.
C13_EmailPattern ==
    [][(Blurs("email") /\ Trim(value["email"]) # <<>>)
       => /\ error'["email"] <=> ~LocalAtDomainTld(Trim(value["email"]))
          /\ value["email"] = NotAnEmail => error'["email"]
          /\ value["email"] = ABCo => ~error'["email"]]_vars

\* the email control was left holding "not-an-email" and is marked
C13_Witness ==
    /\ focus = "none"
    /\ value["email"] = NotAnEmail
    /\ error["email"]

-----------------------------------------------------------------------------
(* Properties of the phone validation (SpecPhone) *)

\* v has the shape (DD) DDDDD-DDDD
FullyMasked(v) ==
    /\ Len(StripNonDigits(v)) = 11
    /\ v = FormatEleven(StripNonDigits(v))

\* C14 as stated: whenever the phone control is validated, required or optional, it
\* is left unmarked only if its value has the shape (DD) DDDDD-DDDD.
C14_ValidOnlyIfMasked ==
    [][Blurs(PhoneField)
       => (~error'[PhoneField] => FullyMasked(value[PhoneField]))]_vars

\* C14 amended: a phone control holding a non-empty trimmed value is marked invalid
\* exactly when that value lacks the shape (DD) DDDDD-DDDD; an empty one is marked
\* exactly when the control is required.
C14_ValidIffMaskedOrOptionalEmpty ==
    [][Blurs(PhoneField)
       => (error'[PhoneField]
             <=> IF Trim(value[PhoneField]) = <<>>
                 THEN required[PhoneField]
                 ELSE ~FullyMasked(Trim(value[PhoneField])))]_vars

\* an optional phone control, emptied by the mask after a letter was typed, was
\* left and is not marked
C14_Witness ==
    /\ focus = "none"
    /\ ~required[PhoneField]
    /\ rawInput = <<"a">>
    /\ value[PhoneField] = <<>>
    /\ ~error[PhoneField]

\* C21: after all listeners of one input event on the phone control have run, a
\* control that was marked invalid before the event is marked exactly when the
\* value it now displays, the masked one, fails validateField.
C21_MarkAgreesWithMasked ==
    [][(Inputs(PhoneField) /\ error[PhoneField])
       => (error'[PhoneField]
             <=> ~FieldValid(PhoneField, value'[PhoneField], required[PhoneField]))]_vars

-----------------------------------------------------------------------------
(* Properties of the navigation (SpecNav) *)

\* C10: after any clicks on the toggle, on links, outside, and Escape presses, the
\* menu's four pieces of state agree: isOpen, the menu's active class,
\* aria-expanded = "true" and the page's scroll lock.
C10_MenuStateAgrees ==
    /\ isOpen <=> menuActive
    /\ isOpen <=> (ariaExpanded = "true")
    /\ isOpen <=> (bodyOverflow = "hidden")

\* the menu is open, some time after the page was loaded
C10_Witness ==
    /\ isOpen /\ menuActive /\ bodyOverflow = "hidden"
    /\ ariaExpanded = "true"
    /\ now > 0

\* the menu is closed in all it shows
Closed ==
    /\ ~isOpen /\ ~menuActive
    /\ ariaExpanded # "true"
    /\ bodyOverflow = ""

\* the step dispatches an event of one of the kinds
Dispatches(kinds) == now' = now /\ navEvent'.kind \in kinds

\* C11: a click outside the menu and the toggle, an Escape key press and a click on
\* a menu link each leave the menu closed, whether they found it open or closed.
C11_ClosingEvents ==
    [][Dispatches({"outside", "Escape", "link"}) => Closed']_vars

\* an Escape key press found the menu open and closed it
C11_Witness ==
    /\ navEvent = [kind |-> "Escape", wasOpen |-> TRUE]
    /\ Closed
    /\ ariaExpanded = "false"

\* C22: one click on the toggle toggles the menu exactly once, once the toggle's
\* own listener and the document's click listener have both run: a closed menu is
\* left open, an open menu is left closed.
C22_ToggleOnce ==
    [][Dispatches({"toggle"})
       => /\ isOpen' = ~isOpen
          /\ isOpen => Closed'
          /\ ~isOpen => (menuActive' /\ ariaExpanded' = "true"
                          /\ bodyOverflow' = "hidden")]_vars

\* a click on the toggle found the menu closed and left it open
C22_Witness ==
    /\ navEvent = [kind |-> "toggle", wasOpen |-> FALSE]
    /\ isOpen /\ menuActive /\ ariaExpanded = "true" /\ bodyOverflow = "hidden"

\* C12: the throttled scroll listener calls handleScroll at most once per 100 ms:
\* any two of its calls lie at least 100 ms apart, and a scroll event arriving less
\* than 100 ms after a call is dropped (no call, the navbar's flag left alone).
C12_ThrottledOncePer100ms ==
    /\ [](\A i, j \in 1..Len(calls) : i < j => calls[j] - calls[i] >= ThrottleLimit)
    /\ [][(/\ Dispatches({"scroll"})
           /\ calls # <<>>
           /\ now - calls[Len(calls)] < ThrottleLimit)
          => (/\ calls' = calls
              /\ navbarScrolled' = navbarScrolled
              /\ handleScrollAt' = handleScrollAt)]_vars

\* a scroll event that moved the window across the threshold was dropped inside
\* the window of the listener's second call
C12_Witness ==
    /\ Len(calls) >= 2
    /\ navEvent.kind = "scroll"
    /\ now > calls[Len(calls)] /\ now - calls[Len(calls)] < ThrottleLimit
    /\ navbarScrolled # (scrollY > ScrollThreshold)

\* C20: once scroll events have stopped and every timer has fired, the navbar
\* carries the scrolled flag exactly when the window's final offset is above 50px.
C20_FinalPositionShown ==
    (timers = {} /\ ~inThrottle /\ scrollTo = {})
    => (navbarScrolled <=> scrollY > ScrollThreshold)

\* the components that write elements
Components ==
    {"Navigation", "ScrollReveal", "AnimatedCounters", "FormHandler", "ParallaxEffect",
     "CardTilt", "PartnerSlider", "LazyImages", "AccessibilityHelpers"}

\* the elements component c has written
Written(c) == {w[2] : w \in {x \in domWrites : x[1] = c}}

\* C16: no element is written by more than one component: the sets of elements the
\* components have written are pairwise disjoint.
C16_DisjointWrites ==
    \A a, b \in Components : a # b => Written(a) \cap Written(b) = {}

-----------------------------------------------------------------------------
(* Properties of the counter animations (SpecCounter) *)

\* C5: for every whole target, either animation ends after finitely many frames (no
\* loop runs more than Steps + 1 calls, and a started animation always comes to its
\* end), and the last value written is exactly the target.
C5_CounterEndsAtTarget ==
    /\ []((counted /\ loops = {}) => text = target)
    /\ [](\A l \in loops : l.k <= Steps)
    /\ (counted ~> (loops = {} /\ text = target))

\* an animation that needed one call more than Steps has ended at its target
C5_Witness ==
    /\ counted /\ loops = {} /\ frames = Steps + 1
    /\ target > 0 /\ text = target

\* C6: the values written during one animation, the final write of the target
\* included, never decrease and never exceed the target.
C6_WritesNonDecreasing ==
    [][frames' = frames + 1 =>
          /\ \A i \in 1..Len(lastWrites') : lastWrites'[i] <= target
          /\ \A i \in 1..(Len(lastWrites') - 1) : lastWrites'[i] <= lastWrites'[i + 1]
          /\ (frames > 0 => text <= lastWrites'[1])]_vars

\* animateValue's last call has written the clamped value and then the target
C6_Witness ==
    /\ Len(lastWrites) = 2 /\ frames >= Steps /\ loops = {}
    /\ target > 1 /\ text = target

-----------------------------------------------------------------------------
(* Properties of the revealers (SpecReveal) *)

\* C7: an intersecting entry delivered a second time for the same element changes
\* nothing more: a delivered element ends revealed, the counter is animated at most
\* once, and an element is no longer observed once an intersecting entry for it
\* has been delivered.
C7_SecondDeliveryIdempotent ==
    /\ starts <= 1
    /\ \A r \in srDelivered : r \notin srObserved /\ (srPending[r] = 0 => r \in revealed)
    /\ acDelivered => ~acObserved
    /\ imgDelivered => (~imgObserved /\ imgLoaded)

\* C9: with the motion-reduction preference set, every reveal-marked element is
\* revealed from initialisation on and no animation frame is ever requested for the
\* counter inside a reveal-marked element.
C9_ReducedMotionNoFrames ==
    reducedMotion => (revealed = RevealEls /\ loops = {})

\* C17: under every interleaving of ScrollReveal's reveal timeouts, AnimatedCounters'
\* observer callback and animation frames, the counter element's counted class is
\* set at most once and never removed, and at most one animation loop is started.
C17_CountedOnce ==
    /\ [](starts <= 1 /\ Cardinality(loops) <= 1)
    /\ [][counted => counted']_vars
    /\ [][counted' # counted => starts' = starts + 1]_vars
    /\ [][starts' # starts => (~counted /\ counted')]_vars

\* both components were handed the counter as intersecting, the reveal timeout
\* has run, and the one loop that was started has ended
C17_Witness ==
    /\ "r1" \in srDelivered /\ srPending["r1"] = 0 /\ "r1" \in revealed
    /\ acDelivered
    /\ counted /\ starts = 1
    /\ loops = {} /\ text = target /\ target > 0

-----------------------------------------------------------------------------
(* Properties of the composition root (SpecApp) *)

\* the markup a component is about
OwnMarkup(c) ==
    CASE c = "Navigation" -> {"navbar", "toggle", "menu", "links"}
      [] c = "SmoothScroll" -> {"links"}
      [] c = "FormHandler" -> {"form"}
      [] c = "BackToTop" -> {"backToTop"}
      [] c = "ParallaxEffect" -> {"parallax"}
      [] c = "ScrollReveal" -> {"reveal"}
      [] c = "CardTilt" -> {"tilt"}
      [] c = "AnimatedCounters" -> {"counter"}
      [] c = "HeroScroll" -> {"hero"}
      [] c = "PartnerSlider" -> {"track"}
      [] OTHER -> {}

\* C8: whatever part of the expected markup is absent, initComponents ends without
\* an exception, and every component of which some markup is present has installed
\* all that its constructor installs on this page.
C8_MissingMarkupHarmless ==
    pc # "loading" =>
        /\ pc = "ready"
        /\ \A i \in 1..Len(Constructors) :
              LET c == Constructors[i]
              IN  (OwnMarkup(c) = {} \/ OwnMarkup(c) \cap markup # {}) =>
                      Wiring(c, markup, reducedMotion, touchDevice, nativeLazy,
                             production, performanceTiming) \subseteq wired

\* C23: whatever the document's ready state when the script runs, the components
\* are initialised exactly once, and the exported PierucciniUtils.announce is the
\* announce function that AccessibilityHelpers.setupAriaLive installed.
C23_ExportedAnnounce ==
    /\ inits <= 1
    /\ (script = "done" /\ readyState # "loading") => inits = 1
    /\ "a11y.announce" \in wired => exported = "announce"

====
